---- MODULE Spec2Model ----
(***************************************************************************)
(* Model of cmd/blueskyrss/main.go: download a Bluesky RSS feed, rewrite   *)
(* every item's pubDate from "02 Jan 2006 15:04 -0700" to                  *)
(* "2006-01-02T15:04:05-07:00", and write the feed to a file.              *)
(*                                                                         *)
(* Go strings are modelled as sequences of one-character strings, so that  *)
(* time.Parse and Time.Format work on characters as the library does.      *)
(***************************************************************************)
EXTENDS Integers, Sequences, FiniteSets, TLC

(***************************************************************************)
(* Characters                                                              *)
(***************************************************************************)
DigitChars == <<"0", "1", "2", "3", "4", "5", "6", "7", "8", "9">>

UpperChars == <<"A", "B", "C", "D", "E", "F", "G", "H", "I", "J", "K", "L", "M",
                "N", "O", "P", "Q", "R", "S", "T", "U", "V", "W", "X", "Y", "Z">>

LowerChars == <<"a", "b", "c", "d", "e", "f", "g", "h", "i", "j", "k", "l", "m",
                "n", "o", "p", "q", "r", "s", "t", "u", "v", "w", "x", "y", "z">>

Range(s) == {s[k] : k \in DOMAIN s}

IndexOf(s, c) == CHOOSE k \in DOMAIN s : s[k] = c

\* isDigit(s, i) of package time, with i counted from 1
isDigit(s, i) == i <= Len(s) /\ s[i] \in Range(DigitChars)

DigitVal(c) == IndexOf(DigitChars, c) - 1

\* the letter c folded to lower case (c |= 'a' - 'A'), or c itself
Fold(c) == IF c \in Range(UpperChars) THEN LowerChars[IndexOf(UpperChars, c)] ELSE c

\* match(s1, s2) of package time: equal ignoring the case of ASCII letters
match(s1, s2) ==
    \A k \in 1..Len(s1) :
        \/ s1[k] = s2[k]
        \/ /\ Fold(s1[k]) = Fold(s2[k])
           /\ Fold(s1[k]) \in Range(LowerChars)

Drop(s, n) == SubSeq(s, n + 1, Len(s))

RECURSIVE cutspace(_)
cutspace(s) == IF Len(s) > 0 /\ s[1] = " " THEN cutspace(Tail(s)) ELSE s

\* skip(value, prefix) of package time: a space of the layout stands for any
\* run of spaces of the value (an empty one at the end of the value)
RECURSIVE skip(_, _)
skip(value, prefix) ==
    IF Len(prefix) = 0 THEN [err |-> FALSE, rest |-> value]
    ELSE IF prefix[1] = " "
         THEN IF Len(value) > 0 /\ value[1] # " "
              THEN [err |-> TRUE, rest |-> value]
              ELSE skip(cutspace(value), cutspace(prefix))
         ELSE IF Len(value) = 0 \/ value[1] # prefix[1]
              THEN [err |-> TRUE, rest |-> value]
              ELSE skip(Tail(value), Tail(prefix))

\* getnum(s, fixed) of package time: one or two digits, two when fixed
getnum(s, fixed) ==
    IF ~isDigit(s, 1) THEN [err |-> TRUE, n |-> 0, rest |-> s]
    ELSE IF ~isDigit(s, 2)
         THEN IF fixed THEN [err |-> TRUE, n |-> 0, rest |-> s]
              ELSE [err |-> FALSE, n |-> DigitVal(s[1]), rest |-> Drop(s, 1)]
         ELSE [err |-> FALSE, n |-> DigitVal(s[1]) * 10 + DigitVal(s[2]),
               rest |-> Drop(s, 2)]

shortMonthNames ==
    << <<"J", "a", "n">>, <<"F", "e", "b">>, <<"M", "a", "r">>, <<"A", "p", "r">>,
       <<"M", "a", "y">>, <<"J", "u", "n">>, <<"J", "u", "l">>, <<"A", "u", "g">>,
       <<"S", "e", "p">>, <<"O", "c", "t">>, <<"N", "o", "v">>, <<"D", "e", "c">> >>

\* lookup(shortMonthNames, val) of package time; n is the month, 1..12
lookup(val) ==
    LET hits == {m \in 1..12 : Len(val) >= 3 /\ match(SubSeq(val, 1, 3), shortMonthNames[m])}
    IN IF hits = {} THEN [err |-> TRUE, n |-> 0, rest |-> val]
       ELSE [err |-> FALSE, n |-> CHOOSE m \in hits : TRUE, rest |-> Drop(val, 3)]

(***************************************************************************)
(* Calendar                                                                *)
(***************************************************************************)
isLeap(year) == year % 4 = 0 /\ (year % 100 # 0 \/ year % 400 = 0)

daysBefore == <<0, 31, 59, 90, 120, 151, 181, 212, 243, 273, 304, 334, 365>>

daysIn(m, year) ==
    IF m = 2 /\ isLeap(year) THEN 29 ELSE daysBefore[m + 1] - daysBefore[m]

\* days from 1 January of year 1 to 1 January of year
daysSinceEpoch(year) ==
    LET y == year - 1
    IN 365 * y + (y \div 4) - (y \div 100) + (y \div 400)

\* An instant is a count of seconds since 1 January of year 1, 00:00 UTC (an
\* int64 in package time), kept as [days, sod] with 0 <= sod < 86400 because
\* the count exceeds the model checker's 32-bit integers.
AddSeconds(t, n) ==
    LET s == t.sod + n
    IN [days |-> t.days + (s \div 86400), sod |-> s % 86400]

\* time.Date(year, month, day, hour, min, 0, 0, UTC)
Date(year, month, day, hour, min) ==
    [days |-> daysSinceEpoch(year) + daysBefore[month]
              + (IF isLeap(year) /\ month >= 3 THEN 1 ELSE 0) + (day - 1),
     sod  |-> hour * 3600 + min * 60]

\* the civil date and clock of an absolute second count (absDate, absClock)
Civil(abs) ==
    LET d0   == abs.days
        sod  == abs.sod
        n400 == d0 \div 146097
        d1   == d0 - 146097 * n400
        q100 == d1 \div 36524
        n100 == q100 - (q100 \div 4)
        d2   == d1 - 36524 * n100
        n4   == d2 \div 1461
        d3   == d2 - 1461 * n4
        q1   == d3 \div 365
        n1   == q1 - (q1 \div 4)
        yday == d3 - 365 * n1
        year == 400 * n400 + 100 * n100 + 4 * n4 + n1 + 1
        adj(m) == daysBefore[m] + (IF isLeap(year) /\ m >= 3 THEN 1 ELSE 0)
        month == CHOOSE m \in 1..12 :
                    adj(m) <= yday /\ (m = 12 \/ yday < adj(m + 1))
    IN [year |-> year, month |-> month, day |-> yday - adj(month) + 1,
        hour |-> sod \div 3600, min |-> (sod % 3600) \div 60, sec |-> sod % 60]

(***************************************************************************)
(* time.Parse("02 Jan 2006 15:04 -0700", value)                            *)
(***************************************************************************)
\* the fields time.Parse reads off value, in the order of the layout's
\* elements, or err when an element fails or is out of range
ParseFields(value) ==
    LET bad  == [err |-> TRUE, year |-> 0, month |-> 0, day |-> 0, hour |-> 0,
                 min |-> 0, zoneOffset |-> 0]
        dd   == getnum(value, TRUE)                        \* "02"
        s1   == skip(dd.rest, <<" ">>)
        mon  == lookup(s1.rest)                            \* "Jan"
        s2   == skip(mon.rest, <<" ">>)
        v3   == s2.rest                                    \* "2006"
        yOk  == Len(v3) >= 4 /\ \A k \in 1..4 : isDigit(v3, k)
        year == DigitVal(v3[1]) * 1000 + DigitVal(v3[2]) * 100
                + DigitVal(v3[3]) * 10 + DigitVal(v3[4])
        s3   == skip(Drop(v3, 4), <<" ">>)
        hh   == getnum(s3.rest, FALSE)                     \* "15"
        s4   == skip(hh.rest, <<":">>)
        mi   == getnum(s4.rest, TRUE)                      \* "04"
        s5   == skip(mi.rest, <<" ">>)
        v6   == s5.rest                                    \* "-0700"
        zh   == getnum(SubSeq(v6, 2, 3), TRUE)
        zm   == getnum(SubSeq(v6, 4, 5), TRUE)
        zone == (zh.n * 60 + zm.n) * 60
    IN IF dd.err \/ s1.err THEN bad
       ELSE IF mon.err \/ s2.err THEN bad
       ELSE IF ~yOk \/ s3.err THEN bad
       ELSE IF hh.err \/ hh.n >= 24 \/ s4.err THEN bad
       ELSE IF mi.err \/ mi.n >= 60 \/ s5.err THEN bad
       ELSE IF Len(v6) < 5 \/ zh.err \/ zm.err THEN bad
       ELSE IF zh.n > 24 \/ zm.n > 60 THEN bad
       ELSE IF v6[1] \notin {"+", "-"} THEN bad
       ELSE IF Len(v6) # 5 THEN bad                        \* extra text
       ELSE IF dd.n < 1 \/ dd.n > daysIn(mon.n, year) THEN bad  \* day out of range
       ELSE [err |-> FALSE, year |-> year, month |-> mon.n, day |-> dd.n,
             hour |-> hh.n, min |-> mi.n,
             zoneOffset |-> IF v6[1] = "-" THEN -zone ELSE zone]

\* the Time that time.Parse returns: the instant and the offset of its
\* location, in seconds east of UTC
Parse(value) ==
    LET f == ParseFields(value)
    IN IF f.err THEN [err |-> TRUE, unix |-> [days |-> 0, sod |-> 0], offset |-> 0]
       ELSE [err |-> FALSE,
             unix |-> AddSeconds(Date(f.year, f.month, f.day, f.hour, f.min),
                                -f.zoneOffset),
             offset |-> f.zoneOffset]

(***************************************************************************)
(* Time.Format("2006-01-02T15:04:05-07:00")                                *)
(***************************************************************************)
\* appendInt(b, x, width) for x >= 0: x in decimal, zero-padded to width
RECURSIVE appendInt(_, _)
appendInt(x, width) ==
    IF width <= 1 /\ x < 10 THEN <<DigitChars[x + 1]>>
    ELSE appendInt(x \div 10, width - 1) \o <<DigitChars[(x % 10) + 1]>>

\* Format with the zone left out of the clock: the date and time of the
\* instant in UTC, followed by the offset of the location
FormatUTC(t) ==
    LET c    == Civil(t.unix)
        zone == (IF t.offset < 0 THEN -t.offset ELSE t.offset) \div 60
    IN appendInt(c.year, 4) \o <<"-">> \o appendInt(c.month, 2) \o <<"-">>
       \o appendInt(c.day, 2) \o <<"T">> \o appendInt(c.hour, 2) \o <<":">>
       \o appendInt(c.min, 2) \o <<":">> \o appendInt(c.sec, 2)
       \o <<(IF t.offset < 0 THEN "-" ELSE "+")>>
       \o appendInt(zone \div 60, 2) \o <<":">> \o appendInt(zone % 60, 2)

\* Format with the layout Parse was given, "02 Jan 2006 15:04 -0700"
FormatSourceLayout(t) ==
    LET c    == Civil(AddSeconds(t.unix, t.offset))
        zone == (IF t.offset < 0 THEN -t.offset ELSE t.offset) \div 60
    IN appendInt(c.day, 2) \o <<" ">> \o shortMonthNames[c.month] \o <<" ">>
       \o appendInt(c.year, 4) \o <<" ">> \o appendInt(c.hour, 2) \o <<":">>
       \o appendInt(c.min, 2) \o <<" ">>
       \o <<(IF t.offset < 0 THEN "-" ELSE "+")>>
       \o appendInt(zone \div 60, 2) \o appendInt(zone % 60, 2)

Format(t) ==
    LET c    == Civil(AddSeconds(t.unix, t.offset))
        zone == (IF t.offset < 0 THEN -t.offset ELSE t.offset) \div 60
    IN appendInt(c.year, 4) \o <<"-">> \o appendInt(c.month, 2) \o <<"-">>
       \o appendInt(c.day, 2) \o <<"T">> \o appendInt(c.hour, 2) \o <<":">>
       \o appendInt(c.min, 2) \o <<":">> \o appendInt(c.sec, 2)
       \o <<(IF t.offset < 0 THEN "-" ELSE "+")>>
       \o appendInt(zone \div 60, 2) \o <<":">> \o appendInt(zone % 60, 2)

(***************************************************************************)
(* The feed: the structs rss, channel, item and guid, and encoding/xml     *)
(***************************************************************************)
\* An XML document is the sequence of the elements of rss and channel in
\* document order; an item element holds its child elements in kids.
Leaf(tag, attr, text) == [tag |-> tag, attr |-> attr, text |-> text, kids |-> <<>>]

\* the zero value of struct rss (var rss rss)
ZeroRss ==
    [Version |-> <<>>,
     Channel |-> [Description |-> <<>>, Link |-> <<>>, Title |-> <<>>, Items |-> <<>>]]

\* the text of the last element of elems tagged tag, "" when there is none
FieldText(elems, tag) ==
    LET at == {k \in DOMAIN elems : elems[k].tag = tag}
    IN IF at = {} THEN <<>>
       ELSE elems[CHOOSE k \in at : \A j \in at : j <= k].text

FieldAttr(elems, tag) ==
    LET at == {k \in DOMAIN elems : elems[k].tag = tag}
    IN IF at = {} THEN <<>>
       ELSE elems[CHOOSE k \in at : \A j \in at : j <= k].attr

IsItem(e) == e.tag = "item"

UnmarshalItem(e) ==
    [Link        |-> FieldText(e.kids, "link"),
     Description |-> FieldText(e.kids, "description"),
     PubDate     |-> FieldText(e.kids, "pubDate"),
     Guid        |-> [IsPermaLink |-> FieldAttr(e.kids, "guid"),
                      Value       |-> FieldText(e.kids, "guid")]]

\* decoder.Decode(&rss): the root must be rss; fields are filled by element
\* name, unknown elements are ignored, item elements are appended in order
Unmarshal(doc) ==
    IF doc = <<>> \/ doc[1].tag # "rss" THEN [err |-> TRUE, v |-> ZeroRss]
    ELSE LET els   == Tail(doc)
             items == SelectSeq(els, IsItem)
         IN [err |-> FALSE,
             v |-> [Version |-> doc[1].attr,
                    Channel |-> [Description |-> FieldText(els, "description"),
                                 Link        |-> FieldText(els, "link"),
                                 Title       |-> FieldText(els, "title"),
                                 Items       |-> [k \in 1..Len(items) |->
                                                     UnmarshalItem(items[k])]]]]

MarshalItem(it) ==
    [tag |-> "item", attr |-> <<>>, text |-> <<>>,
     kids |-> <<Leaf("link", <<>>, it.Link),
                Leaf("description", <<>>, it.Description),
                Leaf("pubDate", <<>>, it.PubDate),
                Leaf("guid", it.Guid.IsPermaLink, it.Guid.Value)>>]

\* Marshal with the items written last first
MarshalReversed(v) ==
    <<Leaf("rss", v.Version, <<>>),
      Leaf("description", <<>>, v.Channel.Description),
      Leaf("link", <<>>, v.Channel.Link),
      Leaf("title", <<>>, v.Channel.Title)>>
    \o [k \in 1..Len(v.Channel.Items) |->
           MarshalItem(v.Channel.Items[Len(v.Channel.Items) + 1 - k])]

\* encoder.Encode(rss): the fields in struct order, the items in slice order
Marshal(v) ==
    <<Leaf("rss", v.Version, <<>>),
      Leaf("description", <<>>, v.Channel.Description),
      Leaf("link", <<>>, v.Channel.Link),
      Leaf("title", <<>>, v.Channel.Title)>>
    \o [k \in 1..Len(v.Channel.Items) |-> MarshalItem(v.Channel.Items[k])]

\* the item replaced by a new item that holds only the pubDate
SetPubDateWholeItem(v, i, s) ==
    [v EXCEPT !.Channel.Items[i] =
        [Link |-> <<>>, Description |-> <<>>, PubDate |-> s,
         Guid |-> [IsPermaLink |-> <<>>, Value |-> <<>>]]]

\* rss.Channel.Items[i].PubDate = s, with i counted from 1
SetPubDate(v, i, s) == [v EXCEPT !.Channel.Items[i].PubDate = s]

(***************************************************************************)
(* Inputs: the environment, the server's answers and the feeds it serves   *)
(***************************************************************************)
\* the largest number of items of a feed whose items are all combinations
\* of SmallDates
MaxItems == 2

\* http.StatusOK
StatusOK == 200

Statuses == {StatusOK, 204, 304, 404, 500}

\* two pubDate values in the source layout, and their texts in the target layout
ScenarioA == <<"1", "5", " ", "A", "u", "g", " ", "2", "0", "2", "4", " ", "2", "3", ":", "5", "9", " ", "-", "0", "5", "0", "0">>

ScenarioB == <<"0", "2", " ", "J", "a", "n", " ", "2", "0", "2", "5", " ", "0", "9", ":", "1", "5", " ", "+", "0", "0", "0", "0">>

TargetA == <<"2", "0", "2", "4", "-", "0", "8", "-", "1", "5", "T", "2", "3", ":", "5", "9", ":", "0", "0", "-", "0", "5", ":", "0", "0">>

TargetB == <<"2", "0", "2", "5", "-", "0", "1", "-", "0", "2", "T", "0", "9", ":", "1", "5", ":", "0", "0", "+", "0", "0", ":", "0", "0">>

\* pubDate values combined freely in feeds of up to MaxItems items
SmallDates == {ScenarioA, ScenarioB, TargetA, <<>>}

\* pubDate values in the source layout's shape, served in one-item feeds
SrcDays == {<<"0", "1">>,
            <<"2", "8">>,
            <<"2", "9">>,
            <<"3", "0">>,
            <<"3", "1">>}

SrcMonths == {<<"J", "a", "n">>,
              <<"F", "e", "b">>,
              <<"M", "a", "r">>,
              <<"d", "e", "c">>}

SrcYears == {<<"0", "0", "0", "0">>,
             <<"1", "9", "0", "0">>,
             <<"2", "0", "0", "0">>,
             <<"2", "0", "2", "3">>,
             <<"2", "0", "2", "4">>,
             <<"9", "9", "9", "9">>}

SrcHours == {<<"9">>,
             <<"2", "3">>}

SrcMinutes == {<<"0", "0">>,
               <<"5", "9">>}

SrcZones == {<<"-", "0", "0", "0", "0">>,
             <<"-", "0", "5", "0", "0">>,
             <<"+", "1", "4", "0", "0">>,
             <<"+", "2", "4", "6", "0">>}

SrcDates ==
    {d \o <<" ">> \o m \o <<" ">> \o y \o <<" ">> \o h \o <<":">> \o mi \o <<" ">> \o z :
        d \in SrcDays, m \in SrcMonths, y \in SrcYears, h \in SrcHours,
        mi \in SrcMinutes, z \in SrcZones}

\* other pubDate values, served in one-item feeds
OddDates ==
    {<<>>,
     <<"3", "1", " ", "F", "e", "b", " ", "2", "0", "2", "4", " ", "1", "0", ":", "0", "0", " ", "+", "0", "0", "0", "0">>,
     <<"1", "5", " ", "A", "u", "g", " ", "2", "0", "2", "4", " ", "2", "4", ":", "0", "0", " ", "+", "0", "0", "0", "0">>,
     <<"1", "5", " ", "A", "u", "g", " ", "2", "0", "2", "4", " ", "2", "3", ":", "6", "0", " ", "+", "0", "0", "0", "0">>,
     <<"1", " ", "J", "a", "n", " ", "2", "0", "2", "5", " ", "0", "9", ":", "1", "5", " ", "+", "0", "0", "0", "0">>,
     <<"1", "5", " ", "F", "o", "o", " ", "2", "0", "2", "4", " ", "2", "3", ":", "5", "9", " ", "-", "0", "5", "0", "0">>,
     <<"1", "5", " ", "A", "u", "g", " ", "2", "4", " ", "2", "3", ":", "5", "9", " ", "-", "0", "5", "0", "0">>,
     <<"1", "5", " ", "A", "u", "g", " ", "2", "0", "2", "4", " ", "2", "3", ":", "5", "9", " ", "-", "0", "5", "0", "0", " ", "G", "M", "T">>,
     <<"1", "5", " ", "A", "u", "g", " ", "2", "0", "2", "4", " ", "2", "3", ":", "5", "9", " ", "+", "2", "5", "0", "0">>,
     <<"1", "5", " ", "A", "u", "g", " ", "2", "0", "2", "4", " ", "2", "3", ":", "5", "9", " ", "+", "0", "0", "6", "1">>,
     <<"1", "5", " ", "A", "u", "g", " ", "2", "0", "2", "4", " ", "2", "3", ":", "5", "9", " ", "0", "5", "0", "0">>,
     <<"1", "5", " ", "A", "u", "g", " ", "2", "0", "2", "4", " ", "2", "3", ":", "5", "9", ":", "3", "0", " ", "-", "0", "5", "0", "0">>,
     <<" ", "1", "5", " ", "A", "u", "g", " ", "2", "0", "2", "4", " ", "2", "3", ":", "5", "9", " ", "-", "0", "5", "0", "0">>,
     <<"1", "5", " ", "A", "u", "g", " ", "2", "0", "2", "4", " ", "2", "3", ":", "5", "9">>,
     <<"1", "5", " ", " ", "A", "U", "G", " ", " ", "2", "0", "2", "4", " ", " ", "7", ":", "0", "5", " ", " ", "-", "0", "9", "3", "0">>,
     <<"T", "h", "u", ",", " ", "1", "5", " ", "A", "u", "g", " ", "2", "0", "2", "4", " ", "2", "3", ":", "5", "9", ":", "0", "0", " ", "G", "M", "T">>,
     <<"2", "0", "2", "4", "-", "0", "8", "-", "1", "5", "T", "2", "3", ":", "5", "9", ":", "0", "0", "-", "0", "5", ":", "0", "0">>}

PubDateLists ==
    UNION {[1..n -> SmallDates] : n \in 0..MaxItems}
    \cup {<<d>> : d \in SrcDates \cup OddDates}

ItemElem(k, date) ==
    [tag |-> "item", attr |-> <<>>, text |-> <<>>,
     kids |-> <<Leaf("link", <<>>, <<"l", DigitChars[k + 1]>>),
                Leaf("description", <<>>, <<"d", DigitChars[k + 1]>>),
                Leaf("pubDate", <<>>, date),
                Leaf("category", <<>>, <<"c">>),
                Leaf("guid", <<"f", "a", "l", "s", "e">>, <<"g", DigitChars[k + 1]>>)>>]

\* the feed document whose items carry the given pubDate values
FeedDoc(dates) ==
    <<Leaf("rss", <<"2", ".", "0">>, <<>>),
      Leaf("description", <<>>, <<"D">>),
      Leaf("link", <<>>, <<"L">>),
      Leaf("title", <<>>, <<"T">>),
      Leaf("language", <<>>, <<"e", "n">>)>>
    \o [k \in 1..Len(dates) |-> ItemElem(k, dates[k])]

\* response bodies: an empty body, a document that is not a feed, and feeds
Bodies == {<<>>, <<Leaf("html", <<>>, <<>>)>>} \cup {FeedDoc(ds) : ds \in PubDateLists}

\* the file at INPUT_PATH before the run: absent, or holding earlier contents
Absent == [exists |-> FALSE, content |-> <<>>]

OldFile == [exists |-> TRUE, content |-> <<Leaf("old", <<>>, <<"o">>)>>]

(***************************************************************************)
(* The state of one run of main                                            *)
(***************************************************************************)
VARIABLES
    pc,        \* the statement main is at
    env,       \* which of INPUT_URL and INPUT_PATH are set
    requests,  \* how many HTTP requests have been issued
    resp,      \* the response of http.Get: [acquired, status]
    bodyRead,  \* whether the decoder has read the response body
    rss,       \* var rss rss
    decoded,   \* what decoder.Decode returned: [ok, v]
    i,         \* how many items the loop has converted
    disk,      \* the file at INPUT_PATH
    preRun,    \* the file at INPUT_PATH when the run started
    opened,    \* the resources acquired: "body", "file"
    closed,    \* the resources on which Close has been called
    defers,    \* the deferred calls, last deferred last
    exitCode,  \* the exit status, -1 while the process runs
    logged,    \* the messages written by package log
    discarded  \* the errors assigned to _: "closeFile", "closeBody"

vars == <<pc, env, requests, resp, bodyRead, rss, decoded, i, disk, preRun,
          opened, closed, defers, exitCode, logged, discarded>>

Init ==
    /\ pc = "lookupUrl"
    /\ env \in [url : BOOLEAN, path : BOOLEAN]
    /\ requests = 0
    /\ resp = [acquired |-> FALSE, status |-> 0]
    /\ bodyRead = FALSE
    /\ rss = ZeroRss
    /\ decoded = [ok |-> FALSE, v |-> ZeroRss]
    /\ i = 0
    /\ disk \in {Absent, OldFile}
    /\ preRun = disk
    /\ opened = {}
    /\ closed = {}
    /\ defers = <<>>
    /\ exitCode = -1
    /\ logged = <<>>
    /\ discarded = {}

\* log.Fatal, log.Fatalf: write the message and os.Exit(1); os.Exit ends the
\* process at once, deferred functions are not run
Fatal(msg) ==
    /\ pc' = "exited"
    /\ exitCode' = 1
    /\ logged' = Append(logged, msg)
    /\ UNCHANGED <<closed, defers, discarded>>

(***************************************************************************)
(* main, statement by statement                                            *)
(***************************************************************************)
\* url, ok := os.LookupEnv("INPUT_URL")
LookupUrl ==
    /\ pc = "lookupUrl"
    /\ \/ /\ ~env.url
          /\ Fatal("The url input is required.")
       \/ /\ env.url
          /\ pc' = "lookupPath"
          /\ UNCHANGED <<closed, defers, exitCode, logged, discarded>>
    /\ UNCHANGED <<env, requests, resp, bodyRead, rss, decoded, i, disk, preRun, opened>>

\* LookupPath with ok ignored
LookupPathUnchecked ==
    /\ pc = "lookupPath"
    /\ pc' = "get"
    /\ UNCHANGED <<env, requests, resp, bodyRead, rss, decoded, i, disk, preRun,
                   opened, closed, defers, exitCode, logged, discarded>>

\* path, ok := os.LookupEnv("INPUT_PATH")
LookupPath ==
    /\ pc = "lookupPath"
    /\ \/ /\ ~env.path
          /\ Fatal("The path input is required.")
       \/ /\ env.path
          /\ pc' = "get"
          /\ UNCHANGED <<closed, defers, exitCode, logged, discarded>>
    /\ UNCHANGED <<env, requests, resp, bodyRead, rss, decoded, i, disk, preRun, opened>>

\* resp, err := http.Get(url), and defer resp.Body.Close()
Get ==
    /\ pc = "get"
    /\ requests' = requests + 1
    /\ \/ /\ Fatal("Failed to download the RSS feed")
          /\ UNCHANGED <<resp, opened>>
       \/ /\ \E status \in Statuses : resp' = [acquired |-> TRUE, status |-> status]
          /\ opened' = opened \cup {"body"}
          /\ defers' = Append(defers, "body")
          /\ pc' = "status"
          /\ UNCHANGED <<closed, exitCode, logged, discarded>>
    /\ UNCHANGED <<env, bodyRead, rss, decoded, i, disk, preRun>>

\* CheckStatus accepting every status below 300
CheckStatusSuccessClass ==
    /\ pc = "status"
    /\ \/ /\ resp.status >= 300
          /\ Fatal("Failed to download RSS feed. Status code")
       \/ /\ resp.status < 300
          /\ pc' = "decode"
          /\ UNCHANGED <<closed, defers, exitCode, logged, discarded>>
    /\ UNCHANGED <<env, requests, resp, bodyRead, rss, decoded, i, disk, preRun, opened>>

\* if resp.StatusCode != http.StatusOK
CheckStatus ==
    /\ pc = "status"
    /\ \/ /\ resp.status # StatusOK
          /\ Fatal("Failed to download RSS feed. Status code")
       \/ /\ resp.status = StatusOK
          /\ pc' = "decode"
          /\ UNCHANGED <<closed, defers, exitCode, logged, discarded>>
    /\ UNCHANGED <<env, requests, resp, bodyRead, rss, decoded, i, disk, preRun, opened>>

\* Decode with its error ignored: main goes on with what the decoder filled
DecodeIgnoringError ==
    /\ pc = "decode"
    /\ bodyRead' = TRUE
    /\ \E body \in Bodies :
          LET r == Unmarshal(body)
          IN /\ rss' = r.v
             /\ decoded' = [ok |-> ~r.err, v |-> r.v]
             /\ pc' = "loop"
             /\ UNCHANGED <<closed, defers, exitCode, logged, discarded>>
    /\ UNCHANGED <<env, requests, resp, i, disk, preRun, opened>>

\* decoder.Decode(&rss) on the body the server sent
Decode ==
    /\ pc = "decode"
    /\ bodyRead' = TRUE
    /\ \E body \in Bodies :
          LET r == Unmarshal(body)
          IN \/ /\ r.err
                /\ Fatal("Failed to parse the RSS feed")
                /\ UNCHANGED <<rss, decoded>>
             \/ /\ ~r.err
                /\ rss' = r.v
                /\ decoded' = [ok |-> TRUE, v |-> r.v]
                /\ pc' = "loop"
                /\ UNCHANGED <<closed, defers, exitCode, logged, discarded>>
    /\ UNCHANGED <<env, requests, resp, i, disk, preRun, opened>>

\* TransformItem that leaves an item it cannot parse as it is and goes on
TransformItemSkip ==
    /\ pc = "loop"
    /\ i < Len(rss.Channel.Items)
    /\ LET pubDate == Parse(rss.Channel.Items[i + 1].PubDate)
       IN /\ rss' = IF pubDate.err THEN rss ELSE SetPubDate(rss, i + 1, Format(pubDate))
          /\ i' = i + 1
          /\ UNCHANGED <<pc, closed, defers, exitCode, logged, discarded>>
    /\ UNCHANGED <<env, requests, resp, bodyRead, decoded, disk, preRun, opened>>

\* one iteration of for i := range rss.Channel.Items
TransformItem ==
    /\ pc = "loop"
    /\ i < Len(rss.Channel.Items)
    /\ LET pubDate == Parse(rss.Channel.Items[i + 1].PubDate)
       IN \/ /\ pubDate.err
             /\ Fatal("Failed to parse the pubDate field")
             /\ UNCHANGED <<rss, i>>
          \/ /\ ~pubDate.err
             /\ rss' = SetPubDate(rss, i + 1, Format(pubDate))
             /\ i' = i + 1
             /\ UNCHANGED <<pc, closed, defers, exitCode, logged, discarded>>
    /\ UNCHANGED <<env, requests, resp, bodyRead, decoded, disk, preRun, opened>>

\* file, err := os.Create(path), after the loop, and defer file.Close()
Create ==
    /\ pc = "loop"
    /\ i = Len(rss.Channel.Items)
    /\ \/ /\ Fatal("Failed to create the file")
          /\ UNCHANGED <<disk, opened>>
       \/ /\ disk' = [exists |-> TRUE, content |-> <<>>]
          /\ opened' = opened \cup {"file"}
          /\ defers' = Append(defers, "file")
          /\ pc' = "encode"
          /\ UNCHANGED <<closed, exitCode, logged, discarded>>
    /\ UNCHANGED <<env, requests, resp, bodyRead, rss, decoded, i, preRun>>

\* encoder.Encode(rss): the document reaches the file, or a write fails and
\* the file holds what was written before the failure
Encode ==
    /\ pc = "encode"
    /\ LET doc == Marshal(rss)
       IN \/ /\ \E n \in 0..(Len(doc) - 1) :
                   disk' = [exists |-> TRUE, content |-> SubSeq(doc, 1, n)]
             /\ Fatal("Failed to write the RSS feed")
          \/ /\ disk' = [exists |-> TRUE, content |-> doc]
             /\ pc' = "return"
             /\ UNCHANGED <<closed, defers, exitCode, logged, discarded>>
    /\ UNCHANGED <<env, requests, resp, bodyRead, rss, decoded, i, preRun, opened>>

\* main returns: the deferred calls run, last deferred first, any error
\* they return is discarded (_ = file.Close(), _ = resp.Body.Close()), and
\* the process exits with status 0
Return ==
    /\ pc = "return"
    /\ closed' = closed \cup Range(defers)
    /\ defers' = <<>>
    /\ \E failing \in SUBSET {"closeFile", "closeBody"} : discarded' = failing
    /\ exitCode' = 0
    /\ pc' = "exited"
    /\ UNCHANGED <<env, requests, resp, bodyRead, rss, decoded, i, disk, preRun,
                   opened, logged>>

Next ==
    \/ LookupUrl
    \/ LookupPath
    \/ Get
    \/ CheckStatus
    \/ Decode
    \/ TransformItem
    \/ Create
    \/ Encode
    \/ Return

Spec == Init /\ [][Next]_vars

(***************************************************************************)
(* Properties                                                              *)
(***************************************************************************)
Items(v) == v.Channel.Items

Exited == pc = "exited"

\* the decoded item k has a pubDate that time.Parse rejects
BadItem(k) ==
    /\ decoded.ok
    /\ k \in 1..Len(Items(decoded.v))
    /\ Parse(Items(decoded.v)[k].PubDate).err

\* the file at INPUT_PATH has been neither created nor truncated
Untouched == disk = preRun /\ "file" \notin opened

\* C1: when the decoded feed holds an item whose pubDate time.Parse rejects
\* under "02 Jan 2006 15:04 -0700", wherever it stands and however many items
\* before it were converted, the run never gets past the loop, it ends with a
\* non-zero status, and the file at INPUT_PATH is never created or truncated.
C1_MalformedPubDateWritesNothing ==
    (\E k \in 1..Len(Items(decoded.v)) : BadItem(k)) =>
        /\ Untouched
        /\ pc \in {"loop", "exited"}
        /\ Exited => exitCode = 1 /\ logged = <<"Failed to parse the pubDate field">>

\* a run over an existing file ended at the second item, the first converted
C1_Witness ==
    /\ Exited
    /\ Len(Items(decoded.v)) = 2
    /\ ~BadItem(1) /\ BadItem(2)
    /\ i = 1
    /\ preRun = OldFile

\* C2: when INPUT_URL or INPUT_PATH is missing the process ends with a
\* non-zero status before any side effect: no HTTP request is issued and no
\* file is created or truncated.
C2_MissingInputNoSideEffect ==
    (~env.url \/ ~env.path) =>
        /\ requests = 0
        /\ ~resp.acquired
        /\ Untouched
        /\ pc \in {"lookupUrl", "lookupPath", "exited"}
        /\ Exited => exitCode = 1 /\ Len(logged) = 1

\* INPUT_URL is set, INPUT_PATH is not, and the run has ended
C2_Witness ==
    /\ Exited
    /\ env.url /\ ~env.path
    /\ logged = <<"The path input is required.">>

\* C3: when the GET returns a status other than 200 the run ends with a
\* non-zero status, the body is never decoded and the file at INPUT_PATH is
\* never created or truncated.
C3_Non200WritesNothing ==
    (resp.acquired /\ resp.status # StatusOK) =>
        /\ ~bodyRead
        /\ ~decoded.ok
        /\ Untouched
        /\ pc \in {"status", "exited"}
        /\ Exited => exitCode = 1

\* a run that got status 204 and has ended, over an existing file
C3_Witness ==
    /\ Exited
    /\ resp.acquired /\ resp.status = 204
    /\ preRun = OldFile

\* C4: a run that fails at any stage leaves the file at INPUT_PATH as it was
\* before the run (or absent), never empty, truncated or partly written.
C4_NoPartialOutput ==
    (Exited /\ exitCode # 0) => disk = preRun

\* every stage of the run succeeded: both inputs present, status 200, the
\* body decoded, every pubDate converted, the file created, the feed written
AllStagesSucceeded ==
    /\ env.url /\ env.path
    /\ resp.acquired /\ resp.status = StatusOK
    /\ bodyRead /\ decoded.ok
    /\ \A k \in 1..Len(Items(decoded.v)) : ~BadItem(k)
    /\ i = Len(Items(decoded.v))
    /\ "file" \in opened
    /\ disk = [exists |-> TRUE, content |-> Marshal(rss)]

Written == Items(Unmarshal(disk.content).v)

\* C6: after a successful run the file holds as many items as were decoded,
\* and the k-th written item is the k-th decoded item for every k; a feed of
\* no items does not fail in the loop and is written with no items.
C6_ItemsCountAndOrder ==
    /\ (Exited /\ exitCode = 0) =>
          /\ Len(Written) = Len(Items(decoded.v))
          /\ \A k \in 1..Len(Written) :
                /\ Written[k].Link = Items(decoded.v)[k].Link
                /\ Written[k].Description = Items(decoded.v)[k].Description
                /\ Written[k].Guid = Items(decoded.v)[k].Guid
    /\ (decoded.ok /\ Items(decoded.v) = <<>>) =>
          /\ pc # "loop" => "file" \in opened \/ logged = <<"Failed to create the file">>
          /\ pc = "return" => Written = <<>>

\* a successful run wrote two items that differ
C6_Witness ==
    /\ Exited
    /\ exitCode = 0
    /\ Len(Written) = 2
    /\ Written[1].Link # Written[2].Link

\* the feed with every pubDate blanked
Frame(v) ==
    [v EXCEPT !.Channel.Items =
        [k \in 1..Len(v.Channel.Items) |-> [v.Channel.Items[k] EXCEPT !.PubDate = <<>>]]]

\* C7: the loop changes nothing but pubDate: at every point after decoding,
\* whether the loop completed or stopped at a failing item, the version, the
\* channel's description, link and title and every item's link, description,
\* guid value and isPermaLink are as decoded.
C7_OnlyPubDateChanges ==
    decoded.ok =>
        /\ Frame(rss) = Frame(decoded.v)
        /\ \A k \in 1..Len(Items(rss)) :
              k > i => Items(rss)[k].PubDate = Items(decoded.v)[k].PubDate

\* the loop stopped at the second item after rewriting the first pubDate
C7_Witness ==
    /\ Exited
    /\ exitCode = 1
    /\ i = 1
    /\ Len(Items(rss)) = 2
    /\ Items(rss)[1].PubDate # Items(decoded.v)[1].PubDate
    /\ Items(rss)[1].Link = Items(decoded.v)[1].Link

\* the number written in the digits s[a..b]
RECURSIVE Num(_, _, _)
Num(s, a, b) == IF a > b THEN 0 ELSE Num(s, a, b - 1) * 10 + DigitVal(s[b])

\* s has the shape YYYY-MM-DDThh:mm:ss+hh:mm
TargetShape(s) ==
    /\ Len(s) = 25
    /\ s[5] = "-" /\ s[8] = "-" /\ s[11] = "T" /\ s[14] = ":" /\ s[17] = ":"
    /\ s[20] \in {"+", "-"} /\ s[23] = ":"
    /\ \A k \in (1..25) \ {5, 8, 11, 14, 17, 20, 23} : isDigit(s, k)

\* out is the target-layout text of the date, clock and offset that
\* time.Parse reads off in, with seconds 00, and denotes the same instant
SameMoment(in, out) ==
    LET f   == ParseFields(in)
        off == (Num(out, 21, 22) * 60 + Num(out, 24, 25)) * 60
        sgn == IF out[20] = "-" THEN -off ELSE off
    IN /\ TargetShape(out)
       /\ Num(out, 1, 4) = f.year
       /\ Num(out, 6, 7) = f.month
       /\ Num(out, 9, 10) = f.day
       /\ Num(out, 12, 13) = f.hour
       /\ Num(out, 15, 16) = f.min
       /\ Num(out, 18, 19) = 0
       /\ sgn = f.zoneOffset
       /\ Num(out, 24, 25) < 60
       /\ AddSeconds(Date(Num(out, 1, 4), Num(out, 6, 7), Num(out, 9, 10),
                          Num(out, 12, 13), Num(out, 15, 16)), -sgn)
          = Parse(in).unix

\* C8: every item the loop has converted holds the target-layout text
\* YYYY-MM-DDThh:mm:ss+hh:mm of the same date, hour, minute and offset as its
\* decoded pubDate, with seconds 00, denoting the same instant;
\* "15 Aug 2024 23:59 -0500" becomes "2024-08-15T23:59:00-05:00" and
\* "02 Jan 2025 09:15 +0000" becomes "2025-01-02T09:15:00+00:00".
C8_PubDateConverted ==
    decoded.ok =>
        \A k \in 1..i :
            /\ SameMoment(Items(decoded.v)[k].PubDate, Items(rss)[k].PubDate)
            /\ Items(decoded.v)[k].PubDate = ScenarioA => Items(rss)[k].PubDate = TargetA
            /\ Items(decoded.v)[k].PubDate = ScenarioB => Items(rss)[k].PubDate = TargetB

\* an item with a pubDate west of UTC, late in the day, has been converted
C8_Witness ==
    /\ i >= 1
    /\ Items(decoded.v)[1].PubDate = ScenarioA
    /\ Items(rss)[1].PubDate = TargetA

\* C9: whenever the response has been acquired its body is closed before the
\* process ends, and whenever the file has been created it is closed before
\* the process ends, on every exit path.
C9_ResourcesReleased ==
    Exited => opened \subseteq closed

\* C10: the text the loop wrote for a converted item is rejected by
\* time.Parse under the source layout: converting a converted item fails.
C10_NotIdempotent ==
    decoded.ok =>
        \A k \in 1..i :
            /\ Items(rss)[k].PubDate # Items(decoded.v)[k].PubDate
            /\ Parse(Items(rss)[k].PubDate).err

\* both items of a feed have been converted and the run succeeded
C10_Witness ==
    /\ Exited
    /\ exitCode = 0
    /\ i = 2
    /\ Items(rss)[2].PubDate = TargetB

====
